---------------------------- MODULE Spec2Model ----------------------------
(***************************************************************************)
(* TMC 16-Channel Switch Decoder: the CV store (core_CvValues), the CV     *)
(* command processor and the start-up code (core_Functions), together with *)
(* the indicator LED and the programming button they drive.                *)
(*                                                                         *)
(* Bytes are 0..255, `unsigned int` is 16 bits wide (AVR) and              *)
(* `unsigned long` 32 bits; every expression is reduced to the width of    *)
(* the C++ variable it is stored in.                                       *)
(***************************************************************************)
EXTENDS Integers, Sequences, FiniteSets, TLC

-----------------------------------------------------------------------------
(* Widths of the C++ integer types on the target                           *)

Uint8Range == 256

Uint16Range == 65536

Byte == 0 .. (Uint8Range - 1)

\* An `unsigned long` (32 bits) is kept as two 16-bit halves <<high, low>>,
\* so that millis() keeps its full width and wraps after 2^32 - 1.
U32(n) == <<(n \div Uint16Range) % Uint16Range, n % Uint16Range>>

U32Add(a, b) ==
  LET low == a[2] + b[2]
  IN  <<(a[1] + b[1] + (low \div Uint16Range)) % Uint16Range,
        low % Uint16Range>>

\* a - b that stops at 0 instead of wrapping around
U32SubNoWrap(a, b) ==
  IF a[1] < b[1] \/ (a[1] = b[1] /\ a[2] < b[2])
  THEN <<0, 0>>
  ELSE LET borrow == IF a[2] < b[2] THEN 1 ELSE 0
       IN  <<a[1] - b[1] - borrow, (a[2] - b[2] + Uint16Range) % Uint16Range>>

\* a - b in unsigned 32-bit arithmetic
U32Sub(a, b) ==
  LET borrow == IF a[2] < b[2] THEN 1 ELSE 0
  IN  <<(a[1] - b[1] - borrow + Uint16Range) % Uint16Range,
        (a[2] - b[2] + Uint16Range) % Uint16Range>>

U32Less(a, b) == a[1] < b[1] \/ (a[1] = b[1] /\ a[2] < b[2])

-----------------------------------------------------------------------------
(* Arduino bit helpers                                                     *)

RECURSIVE Pow2(_)
Pow2(n) == IF n = 0 THEN 1 ELSE 2 * Pow2(n - 1)

bitRead(x, n) == (x \div Pow2(n)) % 2

bitSet(x, n) == IF bitRead(x, n) = 1 THEN x ELSE x + Pow2(n)

bitClear(x, n) == IF bitRead(x, n) = 1 THEN x - Pow2(n) ELSE x

\* x & (2^k - 1)
LowBits(x, k) == x % Pow2(k)

\* x >> k
ShiftRight(x, k) == x \div Pow2(k)

-----------------------------------------------------------------------------
(* core_CvValues.h: the CV numbers with a reserved meaning                 *)

max_cvs == 63

myAddrL == 1

version == 7

VID == 8

myAddrH == 9

CmdStation == 19

Search == 23

Restart == 25

DccQuality == 26

DecType == 27

RailCom == 28

Config == 29

VID_2 == 30

Shortcut == 33

PrintDetails == 34

\* CVs 17 and 18 hold the long loco address (read by number in storedAddress)
LongAddrMsb == 17

LongAddrLsb == 18

TMC16ChannelSwitchDecoder == 194

\* 0b01010101, the value of EEPROM cell 0 once the EEPROM has been filled
InitMarker == 85

\* writing this value to CV8 restores the defaults
ResetValue == 13

\* storedAddress() of an accessory decoder whose address has not been set
MaxInt == 65535

\* Last EEPROM cell of the AVR32DA48 (512 bytes of EEPROM)
E2END == 511

\* MyDefaults.h: DECODER 1, MY_CV1 = 1 + DECODER * 4, MY_CV9 = 2
MY_CV1 == 5

MY_CV9 == 2

-----------------------------------------------------------------------------
VARIABLES
  pc,             \* where the program is: reset vector, setup(), main loop
  eeprom,         \* EEPROM cells 0..E2END (persist over a reboot)
  defaults,       \* cvValues.defaults[0..max_cvs] (RAM)
  led,            \* programmingLed (DccLed) and its output pin
  btn,            \* onBoardButton (DccButton)
  rawPin,         \* the button's input line, TRUE while physically pressed
  LedShouldFlash, \* CvProgramming::LedShouldFlash
  pomAddress,     \* locoCmd's address, set by initPoM()
  myAddress,      \* accCmd's address, set by CommonDecHwFunctions::init()
  myMaster,       \* accCmd.myMaster
  TLast,          \* CommonDecHwFunctions::TLast
  now,            \* millis()
  last,           \* what the last operation was and what it signalled
  cmds,           \* number of bus commands handled so far
  ticks,          \* number of timed passes (ticks, capture loop) so far
  timer           \* a DccTimer

vars == <<pc, eeprom, defaults, led, btn, rawPin, LedShouldFlash, pomAddress,
          myAddress, myMaster, TLast, now, last, cmds, ticks, timer>>

-----------------------------------------------------------------------------
(* core_CvValues.cpp                                                       *)

\* The defaults array of the cvValues object before init(): static storage
ZeroDefaults == [i \in 0 .. max_cvs |-> 0]

CvValuesInit(decoderType, softwareVersion) ==
  [i \in 0 .. max_cvs |->
     CASE i = 0            -> InitMarker
       [] i = DecType      -> decoderType
       [] i = version      -> softwareVersion
       [] i = VID          -> ResetValue
       [] i = VID_2        -> ResetValue
       [] i = myAddrL      -> 1
       [] i = myAddrH      -> 128
       [] i = Config       -> 128
       [] i = RailCom      -> 0
       [] i = CmdStation   -> 1
       [] i = DccQuality   -> 0
       [] i = Shortcut     -> 64
       [] i = PrintDetails -> 0
       [] OTHER            -> 0]

\* MyDefaults.cpp: myDefaults_class::init()
MyDefaultsInit(d) == [d EXCEPT ![myAddrL] = MY_CV1, ![myAddrH] = MY_CV9]

\* The EEPROM is kept as the byte its erased cells read and the cells that
\* hold another byte: cell i holds cells[i], or `erased` when i is not in the
\* domain of cells. Every table has exactly one such form.
Cell(number) == number % (E2END + 1)

\* EEPROM.read(number); the cell index wraps at the size of the EEPROM
CvRead(ee, number) ==
  IF Cell(number) \in DOMAIN ee.cells THEN ee.cells[Cell(number)]
  ELSE ee.erased

\* EEPROM.update(number, value)
CvWrite(ee, number, value) ==
  LET i    == Cell(number)
      keep == (DOMAIN ee.cells \ {i})
                \cup (IF value = ee.erased THEN {} ELSE {i})
  IN  [ee EXCEPT !.cells = [j \in keep |-> IF j = i THEN value
                                           ELSE ee.cells[j]]]

\* notInitialised() that only knows the erased byte 0xFF
notInitialisedBlank(ee) == CvRead(ee, 0) = Uint8Range - 1

notInitialised(ee) == CvRead(ee, 0) # InitMarker

addressNotSet(ee) == CvRead(ee, myAddrH) = 128

\* setDefaults() with the loop started at 1: the marker cell is not written
setDefaultsFromOne(ee, d) ==
  LET keep == {j \in DOMAIN ee.cells : j > max_cvs \/ j = 0}
                \cup {j \in 1 .. max_cvs : d[j] # ee.erased}
  IN  [ee EXCEPT !.cells = [j \in keep |-> IF j \in 1 .. max_cvs THEN d[j]
                                           ELSE ee.cells[j]]]

\* setDefaults() with the loop ended by i < max_cvs: the last CV is not written
setDefaultsShort(ee, d) ==
  LET keep == {j \in DOMAIN ee.cells : j >= max_cvs}
                \cup {j \in 0 .. (max_cvs - 1) : d[j] # ee.erased}
  IN  [ee EXCEPT !.cells = [j \in keep |-> IF j < max_cvs THEN d[j]
                                           ELSE ee.cells[j]]]

\* for (i = 0; i <= max_cvs; i++) EEPROM.update(i, defaults[i])
setDefaults(ee, d) ==
  LET keep == {j \in DOMAIN ee.cells : j > max_cvs}
                \cup {j \in 0 .. max_cvs : d[j] # ee.erased}
  IN  [ee EXCEPT !.cells = [j \in keep |-> IF j <= max_cvs THEN d[j]
                                           ELSE ee.cells[j]]]

\* the test of addressNotSet() used in place of the one of storedAddress()
AddressUnsetExact(ee) == CvRead(ee, myAddrH) = 128

\* storedAddress(): the highest order bit of myAddrH is set
AddressUnset(ee) == CvRead(ee, myAddrH) >= 128

storedAddress(ee) ==
  LET cv29         == CvRead(ee, Config)
      accDecoder   == bitRead(cv29, 7) = 1
      outputAddr   == bitRead(cv29, 6) = 1
      longLocoAddr == bitRead(cv29, 5) = 1
      cv9          == LowBits(CvRead(ee, myAddrH), 3)
      accAddress   == IF outputAddr
                      THEN (cv9 * 256 + CvRead(ee, myAddrL)) % Uint16Range
                      ELSE (cv9 * 64 + LowBits(CvRead(ee, myAddrL), 6) - 1)
                             % Uint16Range
      locoAddress  == IF longLocoAddr
                      THEN LowBits(CvRead(ee, LongAddrMsb), 6) * 256
                             + CvRead(ee, LongAddrLsb)
                      ELSE LowBits(CvRead(ee, myAddrL), 7)
  IN  IF accDecoder
      THEN IF AddressUnset(ee) THEN MaxInt ELSE accAddress
      ELSE IF locoAddress = 0 THEN 3 ELSE locoAddress


-----------------------------------------------------------------------------
(* core_Functions.cpp, ProgButton::addressProgramming: the two address CVs *)
(* as written from the accessory command that was received                 *)

\* my_cv9 cut to the two bits of the documented range 0..3 of CV9
HighAddressBitsTwo(x) == LowBits(x, 2)

\* my_cv9 = (... & 0b00000111)
HighAddressBits(x) == LowBits(x, 3)

CaptureAddress(ee, acc) ==
  LET cv29       == CvRead(ee, Config)
      outputAddr == bitRead(cv29, 6) = 1
      tempAddress == (acc.decoderAddress + 1) % Uint16Range
      my_cv1 == IF outputAddr THEN LowBits(acc.outputAddress, 8)
                              ELSE LowBits(tempAddress, 6)
      my_cv9 == IF outputAddr
                THEN HighAddressBits(ShiftRight(acc.outputAddress, 8))
                ELSE HighAddressBits(ShiftRight(tempAddress, 6))
  IN  CvWrite(CvWrite(ee, myAddrL, my_cv1), myAddrH, my_cv9)

\* the capture without the test of the decoder's role
IsAccDecoderAlways(ee) == TRUE

\* Are we an accessory decoder? (bit 7 of CV29)
IsAccDecoder(ee) == bitRead(CvRead(ee, Config), 7) = 1

-----------------------------------------------------------------------------
(* core_LEDs.cpp: FlashLed / DccLed                                        *)

alwaysOn == 1

alwaysOff == 2

singleFlashSerie == 3

neverStopFlashing == 4

\* programmingLed before attach(): static storage, output pin low
LedZero(pinOn) ==
  [mode |-> 0, on |-> pinOn, flashOntime |-> 0, flashOfftime |-> 0,
   flashPause |-> 0, flashCount |-> 0, last_flash_time |-> U32(0),
   flash_number_now |-> 0, flash_time_remain |-> 0]

LedAttach(l, t) == [l EXCEPT !.last_flash_time = t]

\* BasicLed::turn_off() alone: the pin goes low, the mode stays
LedTurnOffPinOnly(l) == [l EXCEPT !.on = FALSE]

LedTurnOff(l) == [l EXCEPT !.mode = alwaysOff, !.on = FALSE]

LedTurnOn(l) == [l EXCEPT !.mode = alwaysOn, !.on = TRUE]

LedFlash(l, t) ==
  [l EXCEPT !.last_flash_time = t, !.flash_time_remain = l.flashOntime,
            !.flash_number_now = 1, !.on = TRUE]

\* flashSlow() with the pause of flashFast()
LedFlashSlowShortPause(l, t) ==
  LedFlash([l EXCEPT !.flashOntime = 5, !.flashOfftime = 5, !.flashCount = 1,
                     !.flashPause = 2, !.mode = neverStopFlashing], t)

LedFlashSlow(l, t) ==
  LedFlash([l EXCEPT !.flashOntime = 5, !.flashOfftime = 5, !.flashCount = 1,
                     !.flashPause = 5, !.mode = neverStopFlashing], t)

\* flashFast() that leaves a single series of flashes instead of a
\* continuous one
LedFlashFastOnce(l, t) ==
  LedFlash([l EXCEPT !.flashOntime = 1, !.flashOfftime = 2, !.flashCount = 1,
                     !.flashPause = 2, !.mode = singleFlashSerie], t)

LedFlashFast(l, t) ==
  LedFlash([l EXCEPT !.flashOntime = 1, !.flashOfftime = 2, !.flashCount = 1,
                     !.flashPause = 2, !.mode = neverStopFlashing], t)

\* start_up() with a single flash
LedStartUpOnce(l, t) ==
  LedFlash([l EXCEPT !.flashOntime = 2, !.flashOfftime = 2, !.flashCount = 1,
                     !.mode = singleFlashSerie], t)

LedStartUp(l, t) ==
  LedFlash([l EXCEPT !.flashOntime = 2, !.flashOfftime = 2, !.flashCount = 2,
                     !.mode = singleFlashSerie], t)

\* The LED is updated every 100 ms
LedPeriod == 100

\* FlashLed::update() at time t
LedUpdate(l, t) ==
  IF l.mode = alwaysOn \/ l.mode = alwaysOff THEN l
  ELSE IF U32Less(U32Sub(t, l.last_flash_time), U32(LedPeriod)) THEN l
  ELSE LET remain == (l.flash_time_remain + Uint8Range - 1) % Uint8Range
           l1 == [l EXCEPT !.last_flash_time = t, !.flash_time_remain = remain]
       IN  IF remain # 0 THEN l1
           ELSE IF l.on
                THEN IF l.flash_number_now # l.flashCount
                     THEN [l1 EXCEPT !.flash_time_remain = l.flashOfftime,
                                     !.on = FALSE]
                     ELSE IF l.mode = neverStopFlashing
                          THEN [l1 EXCEPT !.flash_time_remain = l.flashPause,
                                          !.flash_number_now = 0,
                                          !.on = FALSE]
                          ELSE [l1 EXCEPT !.mode = alwaysOff, !.on = FALSE]
                ELSE [l1 EXCEPT !.flash_time_remain = l.flashOntime,
                                !.flash_number_now =
                                   (l.flash_number_now + 1) % Uint8Range,
                                !.on = TRUE]

-----------------------------------------------------------------------------
(* core_ProgButton.cpp: DccButton                                          *)

\* Default debounce time of DccButton::attach, in ms
DefaultDbTime == 25

\* onBoardButton before attach(): static storage
BtnZero ==
  [m_dbTime |-> 0, m_state |-> FALSE, m_lastState |-> FALSE,
   m_changed |-> FALSE, m_time |-> U32(0), m_lastChange |-> U32(0)]

BtnAttach(pinVal, dbTime, t) ==
  [m_dbTime |-> dbTime, m_state |-> pinVal, m_lastState |-> pinVal,
   m_changed |-> FALSE, m_time |-> t, m_lastChange |-> t]

\* read() whose rejected samples restart the debounce time
BtnReadRestartsLockout(b, pinVal, ms) ==
  IF U32Less(U32Sub(ms, b.m_lastChange), U32(b.m_dbTime))
  THEN [b EXCEPT !.m_changed = FALSE, !.m_time = ms, !.m_lastChange = ms]
  ELSE [b EXCEPT !.m_lastState = b.m_state,
                 !.m_state = pinVal,
                 !.m_changed = (pinVal # b.m_state),
                 !.m_lastChange = IF pinVal # b.m_state THEN ms ELSE @,
                 !.m_time = ms]

\* read() without the test of the debounce time
BtnReadNoLockout(b, pinVal, ms) ==
  [b EXCEPT !.m_lastState = b.m_state,
            !.m_state = pinVal,
            !.m_changed = (pinVal # b.m_state),
            !.m_lastChange = IF pinVal # b.m_state THEN ms ELSE @,
            !.m_time = ms]

BtnRead(b, pinVal, ms) ==
  IF U32Less(U32Sub(ms, b.m_lastChange), U32(b.m_dbTime))
  THEN [b EXCEPT !.m_changed = FALSE, !.m_time = ms]
  ELSE [b EXCEPT !.m_lastState = b.m_state,
                 !.m_state = pinVal,
                 !.m_changed = (pinVal # b.m_state),
                 !.m_lastChange = IF pinVal # b.m_state THEN ms ELSE @,
                 !.m_time = ms]

isPressed(b) == b.m_state

isReleased(b) == ~b.m_state

\* wasPressed() that reports the accepted state alone
wasPressedLevel(b) == b.m_state

wasPressed(b) == b.m_state /\ b.m_changed

\* wasReleased() that reports any accepted edge, a press as well
wasReleasedAnyEdge(b) == b.m_changed

wasReleased(b) == ~b.m_state /\ b.m_changed

\* pressedFor() with > in place of >=
pressedForStrict(b, ms) ==
  b.m_state /\ U32Less(U32(ms), U32Sub(b.m_time, b.m_lastChange))

pressedFor(b, ms) ==
  b.m_state /\ ~U32Less(U32Sub(b.m_time, b.m_lastChange), U32(ms))

-----------------------------------------------------------------------------
(* core_Functions.cpp: CvProgramming                                       *)

offset4Pom == 7000

initPoM(ee) ==
  IF addressNotSet(ee) THEN offset4Pom - 1
  ELSE (offset4Pom + storedAddress(ee)) % Uint16Range

\* cvCmd.writeBit(data) of the DCC library: set or clear the addressed bit
writeBit(c, data) ==
  IF c.bitvalue = 1 THEN bitSet(data, c.bitposition)
  ELSE bitClear(data, c.bitposition)

\* cvCmd.verifyBit(data) of the DCC library: has the addressed bit that value?
verifyBit(c, data) == bitRead(data, c.bitposition) = c.bitvalue

\* What a handler did, in program order: "write", "setDefaults", "ack",
\* "flashFast", "turn_off" and "reboot" (after which nothing follows).
\* dcc.sendAck() without the test of the mode
AckAnyMode(SM) == <<"ack">>

\* if (SM) dcc.sendAck();
Ack(SM) == IF SM THEN <<"ack">> ELSE <<>>

\* verifyByte that acknowledges whenever the values match, whatever the mode
VerifyByteEffectAnyMode(ee, l, flag, t, c) ==
  [eeprom |-> ee, led |-> l, LedShouldFlash |-> flag,
   events |-> IF CvRead(ee, c.number) = c.value THEN <<"ack">> ELSE <<>>]

\* case CvAccess::verifyByte
VerifyByteEffect(ee, l, flag, t, c) ==
  LET SM == c.cmdType = "SmCmd"
  IN  [eeprom |-> ee, led |-> l, LedShouldFlash |-> flag,
       events |-> IF SM /\ CvRead(ee, c.number) = c.value
                  THEN <<"ack">> ELSE <<>>]

\* the reset test written like the test of the restart CV: any value but 0
ResetRequestedNonZero(value) == value # 0

\* case VID: if (RecCvData == 0x0D)
ResetRequested(value) == value = ResetValue

\* the restart test for the value 1 only, not for "1 or higher"
RestartRequestedOne(value) == value = 1

\* case Restart: if (RecCvData)
RestartRequested(value) == value # 0

\* the reset with processor.reboot() placed before the acknowledge
ResetStepsRebootFirst(SM) == <<"setDefaults", "reboot">> \o Ack(SM)

\* cvValues.setDefaults(); if (SM) dcc.sendAck(); processor.reboot();
ResetSteps(SM) == <<"setDefaults">> \o Ack(SM) \o <<"reboot">>

\* case CvAccess::writeByte
WriteByteEffect(ee, d, l, flag, t, c) ==
  LET SM == c.cmdType = "SmCmd"
      same == [eeprom |-> ee, led |-> l, LedShouldFlash |-> flag,
               events |-> <<>>]
  IN  CASE c.number = version -> same
        [] c.number = VID ->
             IF ResetRequested(c.value)
             THEN [same EXCEPT !.eeprom = setDefaults(ee, d),
                               !.events = ResetSteps(SM)]
             ELSE same
        [] c.number = Restart ->
             IF RestartRequested(c.value)
             THEN [same EXCEPT !.events = <<"reboot">>]
             ELSE same
        [] c.number = Search ->
             IF c.value # 0
             THEN [same EXCEPT !.LedShouldFlash = TRUE,
                               !.led = LedFlashFast(l, t),
                               !.events = <<"flashFast">>]
             ELSE [same EXCEPT !.LedShouldFlash = FALSE,
                               !.led = LedTurnOff(l),
                               !.events = <<"turn_off">>]
        [] OTHER ->
             [same EXCEPT !.eeprom = CvWrite(ee, c.number, c.value),
                          !.events = <<"write">> \o Ack(SM)]

\* bitManipulation that writes the received data byte, not the changed byte
BitManipulationEffectRawData(ee, l, flag, t, c) ==
  LET SM == c.cmdType = "SmCmd"
      same == [eeprom |-> ee, led |-> l, LedShouldFlash |-> flag,
               events |-> <<>>]
  IN  IF c.writecmd
      THEN [same EXCEPT !.eeprom = CvWrite(ee, c.number, c.value),
                        !.events = <<"write">> \o Ack(SM)]
      ELSE IF verifyBit(c, CvRead(ee, c.number))
           THEN [same EXCEPT !.events = Ack(SM)]
           ELSE same

\* case CvAccess::bitManipulation
BitManipulationEffect(ee, l, flag, t, c) ==
  LET SM == c.cmdType = "SmCmd"
      CurrentEEPROMValue == CvRead(ee, c.number)
      same == [eeprom |-> ee, led |-> l, LedShouldFlash |-> flag,
               events |-> <<>>]
  IN  IF c.writecmd
      THEN [same EXCEPT
              !.eeprom = CvWrite(ee, c.number, writeBit(c, CurrentEEPROMValue)),
              !.events = <<"write">> \o Ack(SM)]
      ELSE IF verifyBit(c, CurrentEEPROMValue)
           THEN [same EXCEPT !.events = Ack(SM)]
           ELSE same

\* the range test with the size of the EEPROM in place of its last cell
InRangeSize(number) == number <= E2END + 1

\* The range of CV numbers that processMessage() accepts
InRange(number) == number <= E2END

processMessage(ee, d, l, flag, t, c) ==
  IF InRange(c.number)
  THEN CASE c.operation = "verifyByte" -> VerifyByteEffect(ee, l, flag, t, c)
         [] c.operation = "writeByte" -> WriteByteEffect(ee, d, l, flag, t, c)
         [] c.operation = "bitManipulation" ->
              BitManipulationEffect(ee, l, flag, t, c)
         [] OTHER -> [eeprom |-> ee, led |-> l, LedShouldFlash |-> flag,
                      events |-> <<>>]
  ELSE [eeprom |-> ee, led |-> l, LedShouldFlash |-> flag, events |-> <<>>]

Rebooted(events) == \E i \in 1 .. Len(events) : events[i] = "reboot"

Acks(events) == Cardinality({i \in 1 .. Len(events) : events[i] = "ack"})

-----------------------------------------------------------------------------
(* Bounds and input sets                                                   *)

\* Bus commands handled in one run of the model
MaxCmds == 1

\* CV numbers arrive 1-based from the bus (core_CvValues.h: "the first CV has
\* number 1"): the CVs with a reserved meaning, the first CV after max_cvs
\* and the first number after the EEPROM.
CvNumbers ==
  {myAddrL, version, VID, myAddrH, Search, Restart, Config, max_cvs + 1,
   E2END + 1}

CvData == {0, ResetValue, 129}

BitPositions == {0, 7}

CvCmdTypes == {"SmCmd", "MyPomCmd"}

CvCommands ==
  [number : CvNumbers, operation : {"verifyByte", "writeByte"}, value : CvData,
   writecmd : {FALSE}, bitposition : {0}, bitvalue : {0}, cmdType : CvCmdTypes]
  \cup
  [number : CvNumbers, operation : {"bitManipulation"}, value : {0},
   writecmd : BOOLEAN, bitposition : BitPositions, bitvalue : {0, 1},
   cmdType : CvCmdTypes]

SoftwareVersions == {10}

\* The defaults array as setup() can leave it
DefaultTables ==
  UNION {{CvValuesInit(TMC16ChannelSwitchDecoder, ver),
          MyDefaultsInit(CvValuesInit(TMC16ChannelSwitchDecoder, ver))} :
         ver \in SoftwareVersions}

\* An EEPROM that was never written reads 0x00 or 0xFF in every cell
ErasedImage(b) == [erased |-> b, cells |-> [j \in {} |-> 0]]

\* An EEPROM left by an earlier run: the defaults, with 129 written since to
\* both address CVs, to the configuration CV and to the CV after max_cvs
UsedImage ==
  LET factory == setDefaults(ErasedImage(255),
                             CvValuesInit(TMC16ChannelSwitchDecoder, 10))
  IN  CvWrite(CvWrite(CvWrite(CvWrite(factory, myAddrL, 129), myAddrH, 129),
                      Config, 129), max_cvs + 1, 129)

PowerOnImages == {ErasedImage(0), ErasedImage(255), UsedImage}

\* EEPROMs of decoders whose configuration CV was programmed after the
\* defaults were stored: accessory decoder with output addressing (0xC0),
\* and multifunction decoder (0x00)
RoleImages ==
  LET factory == setDefaults(ErasedImage(255),
                             CvValuesInit(TMC16ChannelSwitchDecoder, 10))
  IN  {CvWrite(factory, Config, 192), CvWrite(factory, Config, 0)}

\* Accessory commands: output addresses 1..2048 (NMRA), four outputs for each
\* of the decoder addresses 0..511
MaxOutputAddress == 2048

AccCommands ==
  {[outputAddress |-> a, decoderAddress |-> (a - 1) \div 4] :
     a \in 1 .. MaxOutputAddress}

-----------------------------------------------------------------------------
(* core_Timer.cpp: DccTimer. ms is millis() at the call                    *)

\* core_Timer.h: runTime = 0, notExpired = false, startTime = 0
TimerZero == [runTime |-> U32(0), notExpired |-> FALSE, startTime |-> U32(0)]

\* millis() - startTime >= runTime
Elapsed(tm, ms) == ~U32Less(U32Sub(ms, tm.startTime), tm.runTime)

setTime(tm, value, ms) ==
  IF value # U32(0)
  THEN [runTime |-> value, notExpired |-> TRUE, startTime |-> ms]
  ELSE [tm EXCEPT !.runTime = value, !.notExpired = FALSE]

\* the value running() returns
running(tm, ms) == tm.notExpired /\ ~Elapsed(tm, ms)

\* expired() that leaves the notExpired flag set
expiredRepeats(tm, ms) ==
  [timer |-> tm, result |-> tm.notExpired /\ Elapsed(tm, ms)]

\* expired(): the timer afterwards and the value returned
expired(tm, ms) ==
  IF tm.notExpired /\ Elapsed(tm, ms)
  THEN [timer |-> [tm EXCEPT !.notExpired = FALSE], result |-> TRUE]
  ELSE [timer |-> tm, result |-> FALSE]

start(tm, ms) == [tm EXCEPT !.startTime = ms, !.notExpired = TRUE]

restart(tm, ms) == start(tm, ms)

stop(tm) == [tm EXCEPT !.notExpired = FALSE]

-----------------------------------------------------------------------------
(* The program: reset, setup(), and the main loop handling CV commands     *)

PowerOn(images) ==
  /\ pc = "reset"
  /\ eeprom \in images
  /\ defaults = ZeroDefaults
  /\ led = LedZero(FALSE)
  /\ btn = BtnZero
  /\ rawPin \in BOOLEAN
  /\ LedShouldFlash = FALSE
  /\ pomAddress = 0
  /\ myAddress = 0
  /\ myMaster = 0
  /\ TLast = U32(0)
  /\ now = U32(0)
  /\ last = [kind |-> "power", events |-> <<>>]
  /\ cmds = 0
  /\ ticks = 0
  /\ timer = TimerZero

Init == PowerOn(PowerOnImages)

\* Processor::reboot(): jmp 0. The RAM is initialised again, the EEPROM and
\* the output pin of the LED keep their values.
Reboot(pinOn) ==
  /\ pc' = "reset"
  /\ defaults' = ZeroDefaults
  /\ led' = LedZero(pinOn)
  /\ btn' = BtnZero
  /\ LedShouldFlash' = FALSE
  /\ pomAddress' = 0
  /\ myAddress' = 0
  /\ myMaster' = 0
  /\ TLast' = U32(0)
  /\ now' = U32(0)

\* CommonDecHwFunctions::init(), with the defaults array d filled
HwInit(d) ==
  LET ee == IF notInitialised(eeprom) THEN setDefaults(eeprom, d) ELSE eeprom
      t0 == now
      l0 == LedAttach(led, t0)
      b0 == BtnAttach(rawPin, DefaultDbTime, t0)
      t1 == U32Add(t0, U32(500))
      b1 == BtnRead(b0, rawPin, t1)
      l1 == LedStartUp(l0, t1)
      l2 == IF addressNotSet(ee) THEN LedFlashSlow(l1, t1)
            ELSE LedStartUp(l1, t1)
  IN  /\ eeprom' = ee
      /\ led' = l2
      /\ btn' = b1
      /\ pomAddress' = initPoM(ee)
      /\ myAddress' = storedAddress(ee)
      /\ myMaster' = CvRead(ee, CmdStation)
      /\ TLast' = t1
      /\ now' = t1
      /\ last' = [kind |-> "init",
                  before |-> [eeprom |-> eeprom],
                  events |-> IF notInitialised(eeprom) THEN <<"setDefaults">>
                             ELSE <<>>]

\* setup() of the sketch: cvValues.init(), possibly myDefaults.init(), then
\* decoderHardware.init()
Setup ==
  /\ pc = "reset"
  /\ \E ver \in SoftwareVersions, own \in BOOLEAN :
       LET d0 == CvValuesInit(TMC16ChannelSwitchDecoder, ver)
           d  == IF own THEN MyDefaultsInit(d0) ELSE d0
       IN  /\ defaults' = d
           /\ HwInit(d)
  /\ pc' = "run"
  /\ UNCHANGED <<rawPin, LedShouldFlash, cmds, ticks, timer>>

\* The main loop hands a CV access command to cvProgramming.processMessage()
CvCommand(c) ==
  /\ pc = "run"
  /\ cmds < MaxCmds
  /\ LET e == processMessage(eeprom, defaults, led, LedShouldFlash, now, c)
     IN  /\ eeprom' = e.eeprom
         /\ last' = [kind |-> "cv", cmd |-> c, events |-> e.events,
                     before |-> [eeprom |-> eeprom, led |-> led,
                                 LedShouldFlash |-> LedShouldFlash,
                                 defaults |-> defaults]]
         /\ IF Rebooted(e.events)
            THEN Reboot(e.led.on)
            ELSE /\ led' = e.led
                 /\ LedShouldFlash' = e.LedShouldFlash
                 /\ UNCHANGED <<pc, defaults, btn, pomAddress, myAddress,
                                myMaster, TLast, now>>
  /\ cmds' = cmds + 1
  /\ UNCHANGED <<rawPin, ticks, timer>>

Next ==
  \/ Setup
  \/ \E c \in CvCommands : CvCommand(c)

Spec == Init /\ [][Next]_vars

-----------------------------------------------------------------------------
(* The main loop's tick, the programming button and the capture loop       *)

\* Timed passes in one run of the model
MaxTicks == 4

\* CommonDecHwFunctions::update() acts every 20 ms
TickPeriod == 20

\* checkForNewDecoderAddress(): pressedFor(5000)
LongHold == 5000

\* Milliseconds between one observed pass and the next: the shortest tick
\* (below the debounce time), one LED period, half the long hold
Gaps == {TickPeriod, LedPeriod, 2500}

\* Accessory commands seen in the capture loop: the last output of decoder
\* 0, an output above 255 and the last output of decoder 511
AccSamples ==
  {acc \in AccCommands : acc.outputAddress \in {4, 1024, MaxOutputAddress}}

\* dcc.cmdType of the commands that dcc.input() reports in the capture loop:
\* accessory commands for this decoder and for any decoder, a CV access
\* command, a loco command
AccessoryCmdTypes == {"MyAccessoryCmd", "AnyAccessoryCmd"}

OtherCmdTypes == {"SmCmd", "MyLocoSpeedCmd"}

\* dcc.input() returned false
NoCommand == [cmdType |-> "none", outputAddress |-> 0, decoderAddress |-> 0]

\* The accessory samples as commands for this decoder, the one above 255
\* also as a command for any decoder
LoopCommands ==
  {[cmdType |-> "MyAccessoryCmd", outputAddress |-> acc.outputAddress,
    decoderAddress |-> acc.decoderAddress] : acc \in AccSamples}
  \cup {[cmdType |-> "AnyAccessoryCmd", outputAddress |-> acc.outputAddress,
         decoderAddress |-> acc.decoderAddress] :
          acc \in {a \in AccSamples : a.outputAddress = 1024}}
  \cup {[NoCommand EXCEPT !.cmdType = ty] : ty \in OtherCmdTypes}
  \cup {NoCommand}

\* the test of the command type for commands to this decoder only
IsAccessoryCmdMine(cmd) == cmd.cmdType = "MyAccessoryCmd"

\* dcc.cmdType == Dcc::MyAccessoryCmd || dcc.cmdType == Dcc::AnyAccessoryCmd
IsAccessoryCmd(cmd) == cmd.cmdType \in AccessoryCmdTypes

\* What the main loop and the capture loop see before a timed pass
Before ==
  [eeprom |-> eeprom, led |-> led, btn |-> btn, pc |-> pc, rawPin |-> rawPin,
   LedShouldFlash |-> LedShouldFlash, defaults |-> defaults, now |-> now]

\* The user presses the button
Press ==
  /\ pc \in {"run", "capture"}
  /\ ~rawPin
  /\ rawPin' = TRUE
  /\ last' = [kind |-> "press", before |-> Before, events |-> <<>>]
  /\ UNCHANGED <<pc, eeprom, defaults, led, btn, LedShouldFlash, pomAddress,
                 myAddress, myMaster, TLast, now, cmds, ticks, timer>>

\* The user lets the button go
Release ==
  /\ pc \in {"run", "capture"}
  /\ rawPin
  /\ rawPin' = FALSE
  /\ last' = [kind |-> "release", before |-> Before, events |-> <<>>]
  /\ UNCHANGED <<pc, eeprom, defaults, led, btn, LedShouldFlash, pomAddress,
                 myAddress, myMaster, TLast, now, cmds, ticks, timer>>

\* CommonDecHwFunctions::update() dt ms after the last pass, with 20 ms or
\* more since TLast: checkForNewDecoderAddress(), then programmingLed.update().
\* A long hold ends in the reboot; a release enters addressProgramming(),
\* which sets the fast flash and starts its loop.
Tick(dt) ==
  /\ pc = "run"
  /\ ticks < MaxTicks
  /\ LET TNow == U32Add(now, U32(dt))
         b1   == BtnRead(btn, rawPin, TNow)
         l1   == IF isPressed(b1) THEN LedTurnOn(led) ELSE led
         on   == IF isPressed(b1) THEN <<"turn_on">> ELSE <<>>
     IN  /\ ~U32Less(U32Sub(TNow, TLast), U32(TickPeriod))
         /\ IF pressedFor(b1, LongHold)
            THEN /\ eeprom' = setDefaults(eeprom, defaults)
                 /\ Reboot(FALSE)
                 /\ last' = [kind |-> "tick", before |-> Before, at |-> TNow,
                             events |-> on \o <<"turn_off", "setDefaults",
                                                "reboot">>]
            ELSE IF wasReleased(b1)
            THEN /\ pc' = "capture"
                 /\ led' = LedFlashFast(l1, TNow)
                 /\ btn' = b1
                 /\ TLast' = TNow
                 /\ now' = TNow
                 /\ last' = [kind |-> "tick", before |-> Before, at |-> TNow,
                             events |-> on \o <<"flashFast">>]
                 /\ UNCHANGED <<eeprom, defaults, LedShouldFlash, pomAddress,
                                myAddress, myMaster>>
            ELSE /\ led' = LedUpdate(l1, TNow)
                 /\ btn' = b1
                 /\ TLast' = TNow
                 /\ now' = TNow
                 /\ last' = [kind |-> "tick", before |-> Before, at |-> TNow,
                             events |-> on]
                 /\ UNCHANGED <<pc, eeprom, defaults, LedShouldFlash,
                                pomAddress, myAddress, myMaster>>
  /\ ticks' = ticks + 1
  /\ UNCHANGED <<rawPin, cmds, timer>>

\* One pass of the do-while loop of addressProgramming(), dt ms after the
\* last pass: programmingLed.update(), the bus command acc if one came in
\* (NoCommand: none), onBoardButton.read(). An accessory command to an
\* accessory decoder stores the address and reboots. A pressed button ends
\* the loop: turn_off(), delay(500), read() of the pin as it is by then
\* (pinLater; in the other cases the pin is not read again), and back in
\* update() the call of programmingLed.update().
CapturePass(dt, acc, pinLater) ==
  /\ pc = "capture"
  /\ ticks < MaxTicks
  /\ LET t  == U32Add(now, U32(dt))
         l1 == LedUpdate(led, t)
         b1 == BtnRead(btn, rawPin, t)
         t2 == U32Add(t, U32(500))
         l2 == LedUpdate(LedTurnOff(l1), t2)
     IN  IF IsAccDecoder(eeprom) /\ IsAccessoryCmd(acc)
         THEN /\ pinLater = rawPin
              /\ eeprom' = CaptureAddress(eeprom, acc)
              /\ Reboot(l1.on)
              /\ last' = [kind |-> "capture", before |-> Before, acc |-> acc,
                          at |-> t,
                          events |-> <<"write", "write", "reboot">>]
              /\ UNCHANGED rawPin
         ELSE IF isPressed(b1)
         THEN /\ pc' = "run"
              /\ led' = l2
              /\ rawPin' = pinLater
              /\ btn' = BtnRead(b1, pinLater, t2)
              /\ now' = t2
              /\ last' = [kind |-> "cancel", before |-> Before, acc |-> acc,
                          at |-> t,
                          events |-> <<"turn_off">>]
              /\ UNCHANGED <<eeprom, defaults, LedShouldFlash, pomAddress,
                             myAddress, myMaster, TLast>>
         ELSE /\ pinLater = rawPin
              /\ led' = l1
              /\ btn' = b1
              /\ now' = t
              /\ last' = [kind |-> "pass", before |-> Before, acc |-> acc,
                          at |-> t,
                          events |-> <<>>]
              /\ UNCHANGED <<pc, eeprom, defaults, LedShouldFlash, pomAddress,
                             myAddress, myMaster, TLast, rawPin>>
  /\ ticks' = ticks + 1
  /\ UNCHANGED <<cmds, timer>>

NextButton ==
  \/ Setup
  \/ Press
  \/ Release
  \/ \E dt \in Gaps : Tick(dt)
  \/ \E dt \in Gaps, acc \in LoopCommands, pinLater \in BOOLEAN :
       CapturePass(dt, acc, pinLater)

InitButton == PowerOn({ErasedImage(255), UsedImage} \cup RoleImages)

SpecButton == InitButton /\ [][NextButton]_vars

-----------------------------------------------------------------------------
(* The CV store on its own: the operations of core_CvValues and the address *)
(* capture applied to stored tables, one operation observed at a time.      *)

LowSamples == {0, 1, 63, 64, 255}

HighSamples == {0, 3, 7, 127, 128, 129, 255}

ConfigSamples == {0, 32, 128, 192}

AddressBytes ==
  (Byte \X HighSamples) \cup (LowSamples \X Byte)

storeIdle ==
  <<led, btn, rawPin, LedShouldFlash, pomAddress, myAddress, myMaster, TLast,
    now, cmds, ticks, timer>>

StoreInit ==
  /\ pc = "store"
  /\ defaults \in DefaultTables
  /\ eeprom \in {ErasedImage(0), ErasedImage(255),
                 setDefaults(ErasedImage(255), defaults)}
  /\ led = LedZero(FALSE)
  /\ btn = BtnZero
  /\ rawPin = FALSE
  /\ LedShouldFlash = FALSE
  /\ pomAddress = 0
  /\ myAddress = 0
  /\ myMaster = 0
  /\ TLast = U32(0)
  /\ now = U32(0)
  /\ last = [kind |-> "power", events |-> <<>>]
  /\ cmds = 0
  /\ ticks = 0
  /\ timer = TimerZero

\* cvValues.write() to the address CVs and the configuration CV
StoreWriteAddress ==
  /\ pc = "store"
  /\ \E ab \in AddressBytes, cfg \in ConfigSamples :
       eeprom' = CvWrite(CvWrite(CvWrite(eeprom, myAddrL, ab[1]),
                                 myAddrH, ab[2]), Config, cfg)
  /\ pc' = "written"
  /\ last' = [kind |-> "write", events |-> <<"write", "write", "write">>]
  /\ UNCHANGED <<defaults, storeIdle>>

\* cvValues.write() to cell 0, the initialisation marker
StoreWriteMarker ==
  /\ pc = "store"
  /\ \E m \in Byte : eeprom' = CvWrite(eeprom, 0, m)
  /\ pc' = "written"
  /\ last' = [kind |-> "write", events |-> <<"write">>]
  /\ UNCHANGED <<defaults, storeIdle>>

\* The three queries of the store, and initPoM()
StoreQuery ==
  /\ pc \in {"store", "written"}
  /\ pc' = "queried"
  /\ last' = [kind |-> "query", events |-> <<>>,
              storedAddress |-> storedAddress(eeprom),
              pomAddress |-> initPoM(eeprom),
              addressNotSet |-> addressNotSet(eeprom),
              notInitialised |-> notInitialised(eeprom)]
  /\ UNCHANGED <<eeprom, defaults, storeIdle>>

\* The capture loop's writes for an accessory command, then storedAddress()
StoreCapture ==
  /\ pc = "store"
  /\ IsAccDecoder(eeprom)
  /\ \E acc \in AccCommands :
       /\ eeprom' = CaptureAddress(eeprom, acc)
       /\ last' = [kind |-> "capture", events |-> <<"write", "write">>,
                   acc |-> acc,
                   pomAddress |-> initPoM(CaptureAddress(eeprom, acc)),
                   storedAddress |-> storedAddress(CaptureAddress(eeprom, acc))]
  /\ pc' = "queried"
  /\ UNCHANGED <<defaults, storeIdle>>

\* setDefaults(), once and then once more
StoreSetDefaults ==
  /\ pc \in {"store", "written", "defaults1"}
  /\ eeprom' = setDefaults(eeprom, defaults)
  /\ pc' = IF pc = "defaults1" THEN "defaults2" ELSE "defaults1"
  /\ last' = [kind |-> "setDefaults", events |-> <<"setDefaults">>,
              before |-> eeprom]
  /\ UNCHANGED <<defaults, storeIdle>>

StoreNext ==
  \/ StoreWriteAddress
  \/ StoreWriteMarker
  \/ StoreQuery
  \/ StoreCapture
  \/ StoreSetDefaults

SpecStore == StoreInit /\ [][StoreNext]_vars

-----------------------------------------------------------------------------
(* Properties of the CV store, checked under SpecStore                     *)

OutputAddressing(ee) == bitRead(CvRead(ee, Config), 6) = 1

\* C1: with the accessory role and decoder addressing configured, the address
\* CVs written by the capture loop for a decoder address a in 0..511 make
\* storedAddress() return a.
C1_DecoderRoundTrip ==
  (/\ last.kind = "capture"
   /\ ~OutputAddressing(eeprom)
   /\ last.acc.decoderAddress \in 0 .. 511)
  => last.storedAddress = last.acc.decoderAddress

\* C2: with the accessory role and output addressing configured, the address
\* CVs written by the capture loop for an output address a in 1..2047 make
\* storedAddress() return a.
C2_OutputRoundTrip ==
  (/\ last.kind = "capture"
   /\ OutputAddressing(eeprom)
   /\ last.acc.outputAddress \in 1 .. 2047)
  => last.storedAddress = last.acc.outputAddress

C2_Witness ==
  /\ last.kind = "capture"
  /\ OutputAddressing(eeprom)
  /\ last.acc.outputAddress = 2047
  /\ CvRead(eeprom, myAddrL) = 255
  /\ CvRead(eeprom, myAddrH) = 7
  /\ last.storedAddress = 2047

\* C3 as stated: whenever the high address CV is >= 128, storedAddress()
\* returns 65535, whatever the low address CV and the configuration flags.
C3_SentinelAnyConfig ==
  (last.kind = "query" /\ CvRead(eeprom, myAddrH) >= 128)
  => last.storedAddress = 65535

\* C3 as amended: with the accessory role configured (bit 7 of the
\* configuration CV), whenever the high address CV is >= 128 storedAddress()
\* returns 65535, whatever the low address CV and the addressing method.
C3_SentinelAccessory ==
  (/\ last.kind = "query"
   /\ CvRead(eeprom, myAddrH) >= 128
   /\ bitRead(CvRead(eeprom, Config), 7) = 1)
  => last.storedAddress = 65535

C3_Witness ==
  /\ last.kind = "query"
  /\ CvRead(eeprom, myAddrH) = 255
  /\ CvRead(eeprom, myAddrL) = 64
  /\ CvRead(eeprom, Config) = 192
  /\ last.storedAddress = 65535

\* C4: addressNotSet() is true exactly when bit 7 of the high address CV is
\* set, for each of the 256 values of that CV.
C4_AddressNotSetTopBit ==
  last.kind = "query"
  => (last.addressNotSet <=> bitRead(CvRead(eeprom, myAddrH), 7) = 1)

\* C5: notInitialised() is true exactly when cell 0 differs from 0x55, and
\* it is false in the state that a call of setDefaults() leaves.
C5_MarkerAndDefaults ==
  /\ last.kind = "query" => (last.notInitialised <=> CvRead(eeprom, 0) # 85)
  /\ last.kind = "setDefaults" => ~notInitialised(eeprom)

C5_Witness ==
  /\ last.kind = "setDefaults"
  /\ CvRead(last.before, 0) = 84
  /\ CvRead(eeprom, 0) = 85

\* C6: after setDefaults() the table equals the defaults at every index
\* 0..63, and a second call in a row leaves the table of the first call.
C6_SetDefaultsIdempotent ==
  last.kind = "setDefaults"
  => /\ \A i \in 0 .. 63 : CvRead(eeprom, i) = defaults[i]
     /\ pc = "defaults2" => eeprom = last.before

C6_Witness ==
  /\ pc = "defaults2"
  /\ last.kind = "setDefaults"
  /\ eeprom = last.before
  /\ CvRead(eeprom, 63) = 0
  /\ CvRead(eeprom, 64) = 255

-----------------------------------------------------------------------------
(* Properties of the CV command processor, checked under Spec              *)

CvDone == last.kind = "cv"

ServiceMode == last.cmd.cmdType = "SmCmd"

\* The command left no trace: no cell changed, no acknowledge, no reboot,
\* indicator and should-flash flag as before
Dropped ==
  /\ eeprom = last.before.eeprom
  /\ last.events = <<>>
  /\ pc = "run"
  /\ led = last.before.led
  /\ LedShouldFlash = last.before.LedShouldFlash

\* C7 as stated: a CV access command with a cvNumber above 63 is dropped.
C7_DropAboveMaxCvs ==
  (CvDone /\ last.cmd.number > 63) => Dropped

\* C7 as amended: a CV access command with a cvNumber above E2END, the last
\* cell of the EEPROM (511), is dropped for every operation and mode: no
\* cell changes, no acknowledge, no reboot, indicator unchanged.
C7_DropAboveEeprom ==
  (CvDone /\ last.cmd.number > 511) => Dropped

C7_Witness ==
  /\ CvDone
  /\ last.cmd.number = 512
  /\ last.cmd.operation = "writeByte"
  /\ ServiceMode
  /\ last.cmd.value # CvRead(eeprom, 0)
  /\ Dropped

\* C8: VerifyByte never changes the table; in Service Mode it acknowledges
\* exactly when the value equals the stored one; in Programming-on-Main mode
\* it has no effect at all.
C8_VerifyByte ==
  (CvDone /\ last.cmd.operation = "verifyByte")
  => /\ eeprom = last.before.eeprom
     /\ pc = "run"
     /\ led = last.before.led
     /\ LedShouldFlash = last.before.LedShouldFlash
     /\ last.events \in {<<>>, <<"ack">>}
     /\ (ServiceMode /\ last.cmd.number <= 511)
          => (last.events = <<"ack">>
                <=> CvRead(last.before.eeprom, last.cmd.number)
                      = last.cmd.value)
     /\ ~ServiceMode => last.events = <<>>

C8_Witness ==
  /\ CvDone
  /\ last.cmd.operation = "verifyByte"
  /\ ServiceMode
  /\ last.cmd.number = VID
  /\ last.events = <<"ack">>

\* C9: WriteByte to a cell of the EEPROM other than version, vendor-ID,
\* restart and search stores the value, changes no other cell, and sends one
\* acknowledge in Service Mode and none in Programming-on-Main mode.
C9_WriteByte ==
  (/\ CvDone
   /\ last.cmd.operation = "writeByte"
   /\ last.cmd.number <= 511
   /\ last.cmd.number \notin {7, 8, 25, 23})
  => /\ CvRead(eeprom, last.cmd.number) = last.cmd.value
     /\ \A i \in 0 .. 511 :
          i # last.cmd.number
            => CvRead(eeprom, i) = CvRead(last.before.eeprom, i)
     /\ Acks(last.events) = IF ServiceMode THEN 1 ELSE 0
     /\ pc = "run"

C9_Witness ==
  /\ CvDone
  /\ last.cmd.operation = "writeByte"
  /\ last.cmd.number = 64
  /\ ~ServiceMode
  /\ CvRead(last.before.eeprom, 64) = 255
  /\ CvRead(eeprom, 64) = 13
  /\ Acks(last.events) = 0

\* C10: no CV access command directed at the version CV (7) changes the
\* stored version byte, and a WriteByte to it is never acknowledged.
C10_VersionReadOnly ==
  (CvDone /\ last.cmd.number = 7)
  => /\ CvRead(eeprom, 7) = CvRead(last.before.eeprom, 7)
     /\ last.cmd.operation = "writeByte" => Acks(last.events) = 0

WriteByteTo(number) ==
  /\ CvDone
  /\ last.cmd.operation = "writeByte"
  /\ last.cmd.number = number

TableUnchanged == eeprom = last.before.eeprom

\* C11: a Service-Mode WriteByte of 0x0D to the vendor-ID CV (8) leaves the
\* table equal to the defaults at every index 0..63, whatever it held, sends
\* an acknowledge and reboots.
C11_VendorIdReset ==
  (WriteByteTo(8) /\ last.cmd.value = 13 /\ ServiceMode)
  => /\ \A i \in 0 .. 63 : CvRead(eeprom, i) = last.before.defaults[i]
     /\ Acks(last.events) = 1
     /\ Rebooted(last.events)
     /\ pc = "reset"

C11_Witness ==
  /\ WriteByteTo(8)
  /\ last.cmd.value = 13
  /\ ServiceMode
  /\ CvRead(last.before.eeprom, myAddrH) = 129
  /\ CvRead(eeprom, myAddrH) = last.before.defaults[myAddrH]
  /\ CvRead(eeprom, max_cvs + 1) = 129
  /\ pc = "reset"

\* C12: a WriteByte to the vendor-ID CV with a value other than 0x0D is
\* ignored in both modes: table unchanged, no acknowledge, no reboot.
C12_VendorIdOtherValue ==
  (WriteByteTo(8) /\ last.cmd.value # 13) => Dropped

C12_Witness ==
  /\ WriteByteTo(8)
  /\ last.cmd.value = 129
  /\ ServiceMode
  /\ CvRead(eeprom, VID) = 13
  /\ Dropped

\* C13: a WriteByte to the restart CV (25) never changes a persisted byte;
\* with a nonzero value it reboots, with zero it does nothing; the value is
\* not stored.
C13_Restart ==
  WriteByteTo(25)
  => /\ TableUnchanged
     /\ last.cmd.value # 0 => (Rebooted(last.events) /\ pc = "reset")
     /\ last.cmd.value = 0 => Dropped

C13_Witness ==
  /\ WriteByteTo(25)
  /\ last.cmd.value = 129
  /\ CvRead(eeprom, Restart) = 0
  /\ TableUnchanged
  /\ pc = "reset"

\* C14: a WriteByte to the search CV (23) with a nonzero value leaves the
\* indicator in the continuous fast-blink pattern with the should-flash flag
\* set; with zero the flag is cleared and the indicator is AlwaysOff and dark;
\* the table is unchanged and there is no reboot.
FastBlink(l) ==
  /\ l.mode = neverStopFlashing
  /\ l.flashOntime = 1
  /\ l.flashOfftime = 2
  /\ l.flashCount = 1
  /\ l.flashPause = 2

C14_Search ==
  WriteByteTo(23)
  => /\ TableUnchanged
     /\ pc = "run"
     /\ ~Rebooted(last.events)
     /\ last.cmd.value # 0 => (FastBlink(led) /\ LedShouldFlash)
     /\ last.cmd.value = 0
          => (led.mode = alwaysOff /\ ~led.on /\ ~LedShouldFlash)

C14_Witness ==
  /\ WriteByteTo(23)
  /\ last.cmd.value = 13
  /\ ~FastBlink(last.before.led)
  /\ FastBlink(led)
  /\ led.on
  /\ LedShouldFlash

BitCommand == CvDone /\ last.cmd.operation = "bitManipulation"

\* The byte at the addressed CV before the command, with the addressed bit
\* set or cleared as the command asks
RequestedByte ==
  LET old == CvRead(last.before.eeprom, last.cmd.number)
      w   == Pow2(last.cmd.bitposition)
      bit == (old \div w) % 2
  IN  old - bit * w + last.cmd.bitvalue * w

C16_BitManipulationPoM ==
  (BitCommand /\ ~ServiceMode)
  => (TableUnchanged /\ Acks(last.events) = 0)

\* C17: when a CV command reboots, every write to the table and every
\* acknowledge of that command come before the reboot, and nothing is done
\* after it.
C17_RebootLast ==
  (CvDone /\ Rebooted(last.events))
  => /\ last.events[Len(last.events)] = "reboot"
     /\ \A i \in 1 .. (Len(last.events) - 1) : last.events[i] # "reboot"
     /\ pc = "reset"

C17_Witness ==
  /\ CvDone
  /\ last.events = <<"setDefaults", "ack", "reboot">>
  /\ eeprom # last.before.eeprom
  /\ pc = "reset"

\* C18: no acknowledge is sent for a command in Programming-on-Main mode,
\* whatever its operation, CV number and value; a Service-Mode command sends
\* at most one.
C18_AckOnlyServiceMode ==
  CvDone
  => /\ Acks(last.events) <= 1
     /\ ~ServiceMode => Acks(last.events) = 0

C18_Witness ==
  /\ CvDone
  /\ ~ServiceMode
  /\ last.cmd.operation = "writeByte"
  /\ last.cmd.number = VID
  /\ last.cmd.value = 13
  /\ last.events = <<"setDefaults", "reboot">>

-----------------------------------------------------------------------------
(* Properties of the tick and the programming button, checked under        *)
(* SpecButton                                                              *)

TickDone == last.kind = "tick"

\* The tick found the button in the pressed state it had already accepted,
\* ms milliseconds or more after that state was accepted
HeldFor(ms) ==
  /\ last.before.btn.m_state
  /\ rawPin
  /\ ~U32Less(U32Sub(last.at, last.before.btn.m_lastChange), U32(ms))

\* The last three steps of the handler
EndsWith(events, a, b, c) ==
  /\ Len(events) >= 3
  /\ events[Len(events) - 2] = a
  /\ events[Len(events) - 1] = b
  /\ events[Len(events)] = c

\* C19: a tick that finds the accepted state pressed for 5000 ms or more
\* turns the indicator off, performs setDefaults() and reboots, in that
\* order, with no bus command involved; the table then holds the defaults at
\* 0..63 and the indicator is dark.
C19_LongHoldReset ==
  (TickDone /\ HeldFor(5000))
  => /\ EndsWith(last.events, "turn_off", "setDefaults", "reboot")
     /\ pc = "reset"
     /\ ~led.on
     /\ \A i \in 0 .. 63 : CvRead(eeprom, i) = last.before.defaults[i]
     /\ cmds = 0

C19_Witness ==
  /\ TickDone
  /\ HeldFor(5000)
  /\ U32Sub(last.at, last.before.btn.m_lastChange) = U32(5000)
  /\ CvRead(last.before.eeprom, myAddrH) = 129
  /\ CvRead(eeprom, myAddrH) = last.before.defaults[myAddrH]
  /\ pc = "reset"

\* C20: a tick in the main loop that leaves the accepted state pressed
\* leaves the indicator steady on; a tick that accepts a release edge enters
\* the capture loop with the indicator in continuous fast blink; and the
\* capture loop is entered by no step other than a tick that accepts a
\* release edge, less than 5000 ms after the press was accepted.
C20_ArmAndCapture ==
  /\ []((TickDone /\ pc = "run" /\ isPressed(btn))
          => (led.mode = alwaysOn /\ led.on))
  /\ []((TickDone /\ pc # "reset" /\ ~btn.m_state /\ btn.m_changed)
          => (pc = "capture" /\ FastBlink(led)))
  /\ [][(pc # "capture" /\ pc' = "capture")
          => /\ pc = "run"
             /\ last'.kind = "tick"
             /\ btn.m_state /\ ~btn'.m_state /\ btn'.m_changed
             /\ ~rawPin
             /\ U32Less(U32Sub(btn.m_time, btn.m_lastChange), U32(5000))]_vars

C20_Witness ==
  /\ TickDone
  /\ pc = "capture"
  /\ last.before.pc = "run"
  /\ last.before.led.mode = alwaysOn
  /\ last.before.btn.m_state
  /\ FastBlink(led)
  /\ led.on


-----------------------------------------------------------------------------
(* The capture loop                                                        *)

\* The last step was a pass of the capture loop
LoopPass == last.kind \in {"pass", "cancel", "capture"}

\* CV29 as it was when the pass began: bit 7 is the accessory role, bit 6
\* output addressing
RoleBefore(n) == (CvRead(last.before.eeprom, Config) \div (2 ^ n)) % 2 = 1

\* The pass received an accessory command while the accessory role was
\* configured
Qualifying ==
  /\ RoleBefore(7)
  /\ last.acc.cmdType \in {"MyAccessoryCmd", "AnyAccessoryCmd"}

\* The pass read the button and found the accepted state pressed
SeenPressed ==
  BtnRead(last.before.btn, last.before.rawPin, last.at).m_state

\* C21: a pass of the capture loop that receives an accessory command, for
\* this decoder or for any decoder, while the accessory role is configured,
\* writes both address CVs from that command (output addressing: the low
\* byte of the output address and bits 8..10 of it; decoder addressing: the
\* low six bits of the decoder address plus one and the next three bits),
\* writes nothing else and then reboots; the high address CV is below 128
\* afterwards.
C21_CaptureWrites ==
  (LoopPass /\ Qualifying)
  => LET a  == last.acc.outputAddress
         t  == last.acc.decoderAddress + 1
         lo == IF RoleBefore(6) THEN a % 256 ELSE t % 64
         hi == IF RoleBefore(6) THEN (a \div 256) % 8 ELSE (t \div 64) % 8
     IN  /\ last.kind = "capture"
         /\ last.events = <<"write", "write", "reboot">>
         /\ pc = "reset"
         /\ CvRead(eeprom, myAddrL) = lo
         /\ CvRead(eeprom, myAddrH) = hi
         /\ CvRead(eeprom, myAddrH) < 128
         /\ \A i \in (0 .. 63) \ {myAddrL, myAddrH} :
              CvRead(eeprom, i) = CvRead(last.before.eeprom, i)

C21_Witness ==
  /\ LoopPass
  /\ Qualifying
  /\ last.acc.cmdType = "AnyAccessoryCmd"
  /\ last.acc.outputAddress = 1024
  /\ CvRead(last.before.eeprom, myAddrH) = 128
  /\ CvRead(eeprom, myAddrH) = 4
  /\ CvRead(eeprom, myAddrL) = 0
  /\ pc = "reset"

\* C22: a pass of the capture loop that receives no accessory command, or
\* receives one while the multifunction role is configured, changes no CV,
\* sends no acknowledgement, does not reboot, and leaves the loop running
\* unless it found the button pressed; and the address CVs are changed by
\* no timed step other than a capture pass with an accessory command in the
\* accessory role, or a step that restores the defaults.
C22_OnlyAccessoryCaptures ==
  /\ (LoopPass /\ ~Qualifying)
       => /\ eeprom = last.before.eeprom
          /\ Acks(last.events) = 0
          /\ ~Rebooted(last.events)
          /\ pc # "reset"
          /\ (pc = "capture" \/ SeenPressed)
  /\ (/\ last.kind # "power"
      /\ \E i \in {myAddrL, myAddrH} :
           CvRead(eeprom, i) # CvRead(last.before.eeprom, i))
       => \/ (last.kind = "capture" /\ last.before.pc = "capture"
                /\ Qualifying)
          \/ \E k \in 1 .. Len(last.events) : last.events[k] = "setDefaults"

C22_Witness ==
  /\ last.kind = "pass"
  /\ last.acc.cmdType = "MyAccessoryCmd"
  /\ ~RoleBefore(7)
  /\ pc = "capture"
  /\ eeprom = last.before.eeprom

\* C23: a pass of the capture loop that receives no qualifying command and
\* finds the button pressed leaves the loop: the indicator is AlwaysOff and
\* dark, the main loop runs again, there is no reboot and no CV has changed.
C23_CancelByButton ==
  (LoopPass /\ ~Qualifying /\ SeenPressed)
  => /\ last.kind = "cancel"
     /\ last.events = <<"turn_off">>
     /\ pc = "run"
     /\ led.mode = alwaysOff
     /\ ~led.on
     /\ ~Rebooted(last.events)
     /\ eeprom = last.before.eeprom

C23_Witness ==
  /\ LoopPass
  /\ ~Qualifying
  /\ SeenPressed
  /\ last.before.led.mode = neverStopFlashing
  /\ led.mode = alwaysOff
  /\ pc = "run"

\* C24: while the capture loop runs the indicator is in the continuous
\* fast-blink pattern, however long the loop has run; a step that begins in
\* the loop ends outside it only if it is a pass that found the button
\* pressed or a pass that received a qualifying accessory command.
C24_NoTimeout ==
  /\ pc = "capture" => FastBlink(led)
  /\ (last.kind # "power" /\ last.kind # "init"
        /\ last.before.pc = "capture" /\ pc # "capture")
       => \/ (last.kind = "cancel" /\ SeenPressed /\ pc = "run")
          \/ (last.kind = "capture" /\ Qualifying /\ pc = "reset")

\* The loop has run for 5000 ms or more and still runs
C24_Witness ==
  /\ last.kind = "pass"
  /\ pc = "capture"
  /\ FastBlink(led)
  /\ ~U32Less(U32Sub(now, TLast), U32(5000))

\* C25: every invocation of update() returns without waiting for a bus
\* command or a button event: no tick and no pass of the capture loop
\* without such an event ends with the program still inside update().
C25_UpdateReturns ==
  (last.kind \in {"tick", "pass"}) => pc # "capture"


-----------------------------------------------------------------------------
(* Startup                                                                 *)

\* C26: when CommonDecHwFunctions::init() finds a marker other than 0x55,
\* then at its end, before any bus command is processed, cells 0..63 of the
\* persisted table equal the default table, the marker included; with the
\* defaults of CvValues::init() the address CVs are then (0x01, 0x80),
\* addressNotSet() is true and storedAddress() returns the unassigned
\* sentinel 65535.
C26_StartupRepair ==
  (last.kind = "init" /\ CvRead(last.before.eeprom, 0) # 85)
  => /\ \A i \in 0 .. 63 : CvRead(eeprom, i) = defaults[i]
     /\ CvRead(eeprom, 0) = 85
     /\ last.events = <<"setDefaults">>
     /\ cmds = 0
     /\ pc = "run"
     /\ (\E ver \in SoftwareVersions :
           defaults = CvValuesInit(TMC16ChannelSwitchDecoder, ver))
          => /\ CvRead(eeprom, myAddrL) = 1
             /\ CvRead(eeprom, myAddrH) = 128
             /\ addressNotSet(eeprom)
             /\ storedAddress(eeprom) = 65535
             /\ myAddress = 65535

C26_Witness ==
  /\ last.kind = "init"
  /\ last.before.eeprom = ErasedImage(0)
  /\ CvRead(eeprom, 0) = 85
  /\ CvRead(eeprom, myAddrH) = 128
  /\ addressNotSet(eeprom)
  /\ myAddress = 65535


-----------------------------------------------------------------------------
(* A DccTimer on its own: its methods called in any order, with time       *)
(* passing between the calls                                               *)

\* Calls and waits in one run of the model
MaxCalls == 5

\* Arguments of setTime()
Durations == {0, 30, 50}

\* Milliseconds that pass between two calls
TimerGaps == {10, 50}

\* What the calls made so far say about the timer: the duration last given
\* to setTime(), the time of the last arming call, whether that call was
\* followed by no stop() or setTime(0), whether expired() has returned true
\* since, and whether the timer was disarmed by stop() or setTime(0) and not
\* armed with a positive duration afterwards
NoHistory ==
  [dur |-> 0, at |-> U32(0), armed |-> FALSE, fired |-> FALSE,
   stopped |-> FALSE]

timerIdle ==
  <<pc, eeprom, defaults, led, btn, rawPin, LedShouldFlash, pomAddress,
    myAddress, myMaster, TLast, cmds>>

\* millis() starts at 0, or shortly before it wraps around
TimerInit ==
  /\ pc = "timer"
  /\ eeprom = ErasedImage(255)
  /\ defaults = ZeroDefaults
  /\ led = LedZero(FALSE)
  /\ btn = BtnZero
  /\ rawPin = FALSE
  /\ LedShouldFlash = FALSE
  /\ pomAddress = 0
  /\ myAddress = 0
  /\ myMaster = 0
  /\ TLast = U32(0)
  /\ now \in {U32(0), <<Uint16Range - 1, Uint16Range - 20>>}
  /\ last = [kind |-> "power", events |-> <<>>, hist |-> NoHistory]
  /\ cmds = 0
  /\ ticks = 0
  /\ timer = TimerZero

\* One call of a method: the timer afterwards, the value returned, and the
\* history afterwards
TimerStep(kind, tm, result, h) ==
  /\ pc = "timer"
  /\ ticks < MaxCalls
  /\ timer' = tm
  /\ last' = [kind |-> kind, events |-> <<>>, result |-> result, at |-> now,
              before |-> last.hist, hist |-> h]
  /\ ticks' = ticks + 1
  /\ UNCHANGED <<timerIdle, now>>

TimerSetTime(d) ==
  TimerStep("setTime", setTime(timer, U32(d), now), FALSE,
            IF d > 0
            THEN [dur |-> d, at |-> now, armed |-> TRUE, fired |-> FALSE,
                  stopped |-> FALSE]
            ELSE [last.hist EXCEPT !.dur = 0, !.armed = FALSE,
                                   !.stopped = TRUE])

TimerRunning == TimerStep("running", timer, running(timer, now), last.hist)

TimerExpired ==
  LET e == expired(timer, now)
  IN  TimerStep("expired", e.timer, e.result,
                [last.hist EXCEPT !.fired = @ \/ e.result])

TimerStart ==
  TimerStep("start", start(timer, now), FALSE,
            [last.hist EXCEPT !.at = now, !.armed = TRUE, !.fired = FALSE,
                              !.stopped = @ /\ last.hist.dur = 0])

TimerRestart ==
  TimerStep("restart", restart(timer, now), FALSE,
            [last.hist EXCEPT !.at = now, !.armed = TRUE, !.fired = FALSE,
                              !.stopped = @ /\ last.hist.dur = 0])

TimerStop ==
  TimerStep("stop", stop(timer), FALSE,
            [last.hist EXCEPT !.armed = FALSE, !.stopped = TRUE])

\* Time passes
TimerElapse(dt) ==
  /\ pc = "timer"
  /\ ticks < MaxCalls
  /\ now' = U32Add(now, U32(dt))
  /\ last' = [kind |-> "elapse", events |-> <<>>, result |-> FALSE,
              at |-> now, before |-> last.hist, hist |-> last.hist]
  /\ ticks' = ticks + 1
  /\ UNCHANGED <<timerIdle, timer>>

NextTimer ==
  \/ \E d \in Durations : TimerSetTime(d)
  \/ TimerRunning
  \/ TimerExpired
  \/ TimerStart
  \/ TimerRestart
  \/ TimerStop
  \/ \E dt \in TimerGaps : TimerElapse(dt)

SpecTimer == TimerInit /\ [][NextTimer]_vars

\* At the last call the duration given to setTime() had passed since the
\* last arming call
DurationPassed ==
  ~U32Less(U32Sub(last.at, last.before.at), U32(last.before.dur))

\* C27: while a timer is armed with a duration above 0 (by setTime(), or by
\* start() or restart() after such a setTime()) and not stopped, a call of
\* expired() returns true if and only if the duration has passed since the
\* arming and no call of expired() has returned true since the arming: true
\* on the first call once the duration has passed, false on every call
\* before it and on every call after it.
C27_OneShotExpiry ==
  (last.kind = "expired" /\ last.before.armed /\ last.before.dur > 0)
  => /\ last.result <=> (DurationPassed /\ ~last.before.fired)
     /\ last.hist.fired <=> (DurationPassed \/ last.before.fired)

\* The second of two calls of expired() after the duration has passed
C27_Witness ==
  /\ last.kind = "expired"
  /\ last.before.armed
  /\ last.before.dur = 50
  /\ last.before.fired
  /\ DurationPassed
  /\ ~last.result

\* C28: after stop() or setTime(0), and until the timer is armed with a
\* duration above 0, running() and expired() return false on every call;
\* and running() returns true exactly while the timer is armed and the
\* duration has not passed since the arming, which start() and restart()
\* set to the moment of their call.
C28_DisarmedNeverSignals ==
  /\ (last.kind \in {"running", "expired"} /\ last.before.stopped)
       => ~last.result
  /\ last.kind = "running"
       => (last.result <=> (last.before.armed /\ ~DurationPassed))


-----------------------------------------------------------------------------
(* A DccButton on its own: the input line changes, time passes, and read() *)
(* is called at any moment                                                 *)

\* Changes of the input, waits and reads in one run of the model
MaxMoves == 7

\* Milliseconds that pass between two moves: less than the debounce time,
\* and the debounce time
ButtonGaps == {10, DefaultDbTime}

buttonIdle ==
  <<pc, eeprom, defaults, led, LedShouldFlash, pomAddress, myAddress,
    myMaster, TLast, cmds, timer>>

\* What the moves made so far say about the button: the value the last
\* read() returned, the edge it accepted, the time of the last accepted
\* transition (at first of attach()), the times of the last two changes of
\* the input, their number, and the accepted transitions counted since each
\* of the two
ButtonHistory(pin, t) ==
  [level |-> pin, edge |-> "none", acceptedAt |-> t, rawAt |-> t,
   prevRawAt |-> t, raws |-> 0, sincePrev |-> 0, sinceLast |-> 0]

\* attach() with the default debounce time; millis() is 0, or shortly before
\* it wraps around
ButtonInit ==
  /\ pc = "button"
  /\ eeprom = ErasedImage(255)
  /\ defaults = ZeroDefaults
  /\ led = LedZero(FALSE)
  /\ rawPin \in BOOLEAN
  /\ now \in {U32(0), <<Uint16Range - 1, Uint16Range - 20>>}
  /\ btn = BtnAttach(rawPin, DefaultDbTime, now)
  /\ LedShouldFlash = FALSE
  /\ pomAddress = 0
  /\ myAddress = 0
  /\ myMaster = 0
  /\ TLast = U32(0)
  /\ last = [kind |-> "attach", events |-> <<>>, changed |-> FALSE,
             before |-> ButtonHistory(rawPin, now),
             hist |-> ButtonHistory(rawPin, now)]
  /\ cmds = 0
  /\ ticks = 0
  /\ timer = TimerZero

\* The input line changes
ButtonToggle ==
  /\ pc = "button"
  /\ ticks < MaxMoves
  /\ rawPin' = ~rawPin
  /\ last' = [kind |-> "toggle", events |-> <<>>, changed |-> FALSE,
              before |-> last.hist,
              hist |-> [last.hist EXCEPT !.prevRawAt = last.hist.rawAt,
                                         !.rawAt = now,
                                         !.raws = @ + 1,
                                         !.sincePrev = last.hist.sinceLast,
                                         !.sinceLast = 0]]
  /\ ticks' = ticks + 1
  /\ UNCHANGED <<buttonIdle, btn, now>>

\* Time passes
ButtonElapse(dt) ==
  /\ pc = "button"
  /\ ticks < MaxMoves
  /\ now' = U32Add(now, U32(dt))
  /\ last' = [kind |-> "elapse", events |-> <<>>, changed |-> FALSE,
              before |-> last.hist, hist |-> last.hist]
  /\ ticks' = ticks + 1
  /\ UNCHANGED <<buttonIdle, btn, rawPin>>

\* read(): a transition is accepted when the value returned differs from the
\* value the read() before returned
ButtonRead ==
  /\ pc = "button"
  /\ ticks < MaxMoves
  /\ LET b1 == BtnRead(btn, rawPin, now)
         changed == b1.m_state # last.hist.level
         n == IF changed THEN 1 ELSE 0
     IN  /\ btn' = b1
         /\ last' = [kind |-> "read", events |-> <<>>, changed |-> changed,
                     before |-> last.hist, button |-> btn,
                     hist |-> [last.hist EXCEPT
                                 !.level = b1.m_state,
                                 !.edge = IF ~changed THEN "none"
                                          ELSE IF b1.m_state THEN "press"
                                          ELSE "release",
                                 !.acceptedAt = IF changed THEN now ELSE @,
                                 !.sincePrev = @ + n,
                                 !.sinceLast = @ + n]]
  /\ ticks' = ticks + 1
  /\ UNCHANGED <<buttonIdle, rawPin, now>>

NextDebounce ==
  \/ ButtonToggle
  \/ \E dt \in ButtonGaps : ButtonElapse(dt)
  \/ ButtonRead

SpecDebounce == ButtonInit /\ [][NextDebounce]_vars

\* The last two changes of the input were less than the debounce time apart
CloseTransitions ==
  /\ last.hist.raws >= 2
  /\ U32Less(U32Sub(last.hist.rawAt, last.hist.prevRawAt), U32(DefaultDbTime))

\* C29 as stated: when the last two changes of the input were less than the
\* debounce time apart, the calls of read() made since the first of the two
\* have accepted one transition at most, not two.
C29_DebounceCollapse == CloseTransitions => last.hist.sincePrev <= 1

\* C29: a read() made less than the debounce time after the last accepted
\* transition (or after attach()) accepts no transition, so that any two
\* accepted transitions are the debounce time or more apart; two changes of
\* the input less than the debounce time apart give two accepted
\* transitions at most.
C29_DebounceLockout ==
  /\ (last.kind = "read"
        /\ U32Less(U32Sub(now, last.before.acceptedAt), U32(DefaultDbTime)))
       => (~last.changed /\ isPressed(btn) = last.before.level)
  /\ CloseTransitions => last.hist.sincePrev <= 2

\* The second of two accepted transitions, accepted the debounce time after
\* the first, the changes of the input being less than that apart
C29_Witness ==
  /\ last.kind = "read"
  /\ last.changed
  /\ CloseTransitions
  /\ last.hist.sincePrev = 2
  /\ U32Sub(now, last.before.acceptedAt) = U32(DefaultDbTime)

\* C30: wasPressed() is true after the read() that accepted a press, until
\* the next read(), and false after every other read(); the same for
\* wasReleased() and an accepted release; isPressed() is the state the last
\* read() returned and isReleased() its opposite.
C30_EdgeReporting ==
  /\ wasPressed(btn) <=> last.hist.edge = "press"
  /\ wasReleased(btn) <=> last.hist.edge = "release"
  /\ isPressed(btn) <=> last.hist.level
  /\ isReleased(btn) <=> ~last.hist.level

\* The read() after the one that accepted a press, the button still pressed
C30_Witness ==
  /\ last.kind = "read"
  /\ last.before.edge = "press"
  /\ last.hist.edge = "none"
  /\ isPressed(btn)
  /\ ~wasPressed(btn)


\* The last read() sampled the input less than the debounce time after the
\* last accepted transition (or after attach())
Rejected ==
  /\ last.kind = "read"
  /\ U32Less(U32Sub(now, last.before.acceptedAt), U32(DefaultDbTime))

\* C31: a read() that accepts a transition is made the debounce time or
\* more after the transition accepted before it; a read() that rejects its
\* sample leaves the accepted state and the last-change time as they were;
\* and the last-change time is in every state the time of the last accepted
\* transition (of attach() before the first).
C31_DebounceInvariant ==
  /\ (last.kind = "read" /\ last.changed)
       => ~U32Less(U32Sub(now, last.before.acceptedAt), U32(DefaultDbTime))
  /\ Rejected
       => /\ btn.m_state = last.button.m_state
          /\ btn.m_lastChange = last.button.m_lastChange
  /\ btn.m_lastChange = last.hist.acceptedAt

\* A sample that differs from the accepted state, rejected 20 ms after the
\* last accepted transition
C31_Witness ==
  /\ Rejected
  /\ rawPin # btn.m_state
  /\ last.hist.sincePrev >= 1
  /\ U32Sub(now, last.before.acceptedAt) = U32(20)


-----------------------------------------------------------------------------
(* A DccLed on its own: a pattern is set at any moment and update() is     *)
(* polled with time passing between the calls                              *)

\* Pattern calls and polls in one run of the model
MaxLedMoves == 9

\* Milliseconds between two polls: less than the LED period, and the period
LedGaps == {40, LedPeriod}

ledIdle ==
  <<pc, eeprom, defaults, btn, rawPin, LedShouldFlash, pomAddress, myAddress,
    myMaster, TLast, cmds, timer>>

\* What the calls made so far say about the LED: the pattern set last, the
\* levels the output has taken since then, the time of the last poll that
\* came a period or more after the one before (or after the pattern call),
\* how many such polls the output has kept its level, and how many there
\* were since the pattern call
LedHistory(pattern, level, t) ==
  [pattern |-> pattern, levels |-> <<level>>, polledAt |-> t, kept |-> 0,
   polls |-> 0]

\* attach(); the output pin is low, or still high from before a reboot
LedInit ==
  /\ pc = "led"
  /\ eeprom = ErasedImage(255)
  /\ defaults = ZeroDefaults
  /\ \E pin \in BOOLEAN : led = LedAttach(LedZero(pin), U32(0))
  /\ btn = BtnZero
  /\ rawPin = FALSE
  /\ LedShouldFlash = FALSE
  /\ pomAddress = 0
  /\ myAddress = 0
  /\ myMaster = 0
  /\ TLast = U32(0)
  /\ now = U32(0)
  /\ last = [kind |-> "attach", events |-> <<>>, before |-> led,
             hist |-> LedHistory("none", led.on, now)]
  /\ cmds = 0
  /\ ticks = 0
  /\ timer = TimerZero

\* A call that sets a pattern or a steady level
LedCall(pattern, l) ==
  /\ pc = "led"
  /\ ticks < MaxLedMoves
  /\ led' = l
  /\ last' = [kind |-> "call", events |-> <<>>, before |-> led,
              hist |-> LedHistory(pattern, l.on, now)]
  /\ ticks' = ticks + 1
  /\ UNCHANGED <<ledIdle, now>>

LedDoStartUp == LedCall("start_up", LedStartUp(led, now))

LedDoFlashSlow == LedCall("flashSlow", LedFlashSlow(led, now))

LedDoFlashFast == LedCall("flashFast", LedFlashFast(led, now))

LedDoTurnOn == LedCall("turn_on", LedTurnOn(led))

LedDoTurnOff == LedCall("turn_off", LedTurnOff(led))

\* dt ms pass, then update() is called
LedPoll(dt) ==
  /\ pc = "led"
  /\ ticks < MaxLedMoves
  /\ LET t  == U32Add(now, U32(dt))
         l1 == LedUpdate(led, t)
         h  == last.hist
         qualifying == ~U32Less(U32Sub(t, h.polledAt), U32(LedPeriod))
         toggled == l1.on # led.on
     IN  /\ now' = t
         /\ led' = l1
         /\ last' = [kind |-> "poll", events |-> <<>>, before |-> led,
                     qualifying |-> qualifying,
                     kept |-> h.kept + (IF qualifying THEN 1 ELSE 0),
                     hist |-> [h EXCEPT
                                 !.levels = IF toggled THEN Append(@, l1.on)
                                            ELSE @,
                                 !.polledAt = IF qualifying THEN t ELSE @,
                                 !.polls = IF qualifying THEN @ + 1 ELSE @,
                                 !.kept = IF toggled THEN 0
                                          ELSE IF qualifying THEN @ + 1
                                          ELSE @]]
  /\ ticks' = ticks + 1
  /\ UNCHANGED ledIdle

NextLed ==
  \/ LedDoStartUp
  \/ LedDoFlashSlow
  \/ LedDoFlashFast
  \/ LedDoTurnOn
  \/ LedDoTurnOff
  \/ \E dt \in LedGaps : LedPoll(dt)

SpecLed == LedInit /\ [][NextLed]_vars


\* The last step was a call of update()
Polled == last.kind = "poll"

\* C32: after start_up() the output is on, then off, on and off again and
\* takes no further level: the mode is the single series until the second
\* off and AlwaysOff from then on, which is reached with the sixth poll that
\* comes a period or more after the one before; update() in mode AlwaysOff
\* changes nothing.
C32_SingleBurst ==
  /\ last.hist.pattern = "start_up"
       => /\ led.mode \in {singleFlashSerie, alwaysOff}
          /\ led.mode = singleFlashSerie
               => /\ Len(last.hist.levels) <= 3
                  /\ last.hist.polls < 6
          /\ led.mode = alwaysOff
               => /\ last.hist.levels = <<TRUE, FALSE, TRUE, FALSE>>
                  /\ ~led.on
                  /\ last.hist.polls >= 6
          /\ \A k \in 1 .. Len(last.hist.levels) :
               last.hist.levels[k] = (k % 2 = 1)
  /\ (Polled /\ last.before.mode = alwaysOff) => led = last.before

\* A poll after the series has ended
C32_Witness ==
  /\ Polled
  /\ last.qualifying
  /\ last.hist.pattern = "start_up"
  /\ last.before.mode = alwaysOff
  /\ last.hist.polls = 7
  /\ last.hist.levels = <<TRUE, FALSE, TRUE, FALSE>>
  /\ led.mode = alwaysOff

\* Polls, a period or more apart, that the output stays on and stays off in
\* the pattern set last: flashOntime and flashPause of flashSlow() and
\* flashFast()
OnPolls == IF last.hist.pattern = "flashSlow" THEN 5 ELSE 1

PausePolls == IF last.hist.pattern = "flashSlow" THEN 5 ELSE 2

\* C33: after flashSlow() or flashFast(), update() leaves the mode, the
\* times and the count as set; the output is on for the on time, then off
\* for the pause with the burst counter at 0, then on again with the counter
\* at 1, and never keeps a level for more polls than that.
C33_ContinuousBursts ==
  last.hist.pattern \in {"flashSlow", "flashFast"}
  => /\ led.mode = neverStopFlashing
     /\ led.flashOntime = OnPolls
     /\ led.flashPause = PausePolls
     /\ led.flashCount = 1
     /\ last.hist.kept < (IF led.on THEN OnPolls ELSE PausePolls)
     /\ led.flash_number_now = (IF led.on THEN 1 ELSE 0)
     /\ (Polled /\ led.on # last.before.on)
          => last.kept = (IF led.on THEN PausePolls ELSE OnPolls)
     /\ \A k \in 1 .. Len(last.hist.levels) :
          last.hist.levels[k] = (k % 2 = 1)

\* The third burst of flashFast() begins
C33_Witness ==
  /\ Polled
  /\ last.hist.pattern = "flashFast"
  /\ last.hist.levels = <<TRUE, FALSE, TRUE, FALSE, TRUE>>
  /\ led.mode = neverStopFlashing
  /\ led.flash_number_now = 1


-----------------------------------------------------------------------------
(* The decoder in use: CV access commands, the button, ticks and the       *)
(* capture loop in one run                                                 *)

\* Milliseconds between two timed passes: half the long hold
SessionGaps == {2500}

\* CV access commands in such a run, in Service Mode: byte writes of 129
\* and 0 to the search CV, of 129 to the first CV after max_cvs, of 0x0D to
\* the vendor ID, and a write of bit 7 of the low address CV
SessionCommands ==
  {c \in CvCommands :
     /\ c.cmdType = "SmCmd"
     /\ \/ /\ c.operation = "writeByte"
           /\ <<c.number, c.value>> \in
                {<<Search, 129>>, <<Search, 0>>, <<max_cvs + 1, 129>>,
                 <<VID, ResetValue>>}
        \/ /\ c.operation = "bitManipulation"
           /\ c.number = myAddrL
           /\ c.writecmd
           /\ c.bitposition = 7
           /\ c.bitvalue = 1}

\* Bus commands seen by the capture loop in such a run
SessionLoopCommands ==
  {c \in LoopCommands :
     c.cmdType = "none" \/ c.cmdType = "AnyAccessoryCmd"}

\* A decoder as delivered, its EEPROM erased
InitSession == PowerOn({ErasedImage(255)})

NextSession ==
  \/ Setup
  \/ \E c \in SessionCommands : CvCommand(c)
  \/ Press
  \/ Release
  \/ \E dt \in SessionGaps : Tick(dt)
  \/ \E dt \in SessionGaps, acc \in SessionLoopCommands, pinLater \in BOOLEAN :
       CapturePass(dt, acc, pinLater)

SpecSession == InitSession /\ [][NextSession]_vars


\* C34: while the search blink is wanted (a byte write of a nonzero value
\* to the search CV was processed, and since then no byte write of zero to
\* it and no reboot, which is what CvProgramming::LedShouldFlash records),
\* the indicator is in the continuous flashing mode.
C34_SearchBlinkPersists == LedShouldFlash => led.mode = neverStopFlashing

FactoryReset ==
  /\ last.kind \in {"cv", "tick"}
  /\ \E k \in 1 .. Len(last.events) : last.events[k] = "setDefaults"

-----------------------------------------------------------------------------
(* Addresses derived from the stored address CVs                           *)

\* The last step asked the store for the address: by the queries, or after
\* the writes of a capture
AddressAsked == pc = "queried" /\ last.kind \in {"query", "capture"}

\* The high address CV has its top bit clear: an address is programmed
Programmed == CvRead(eeprom, myAddrH) < 128

\* C35: initPoM() sets the Programming-on-Main address to 6999 when the
\* high address CV is 0x80 and to 7000 + storedAddress() in 16 bits
\* otherwise; the result is 6999 only when no address is programmed and is
\* 7000 or more for every programmed address.
C35_PomAddress ==
  AddressAsked
  => /\ last.pomAddress =
          IF CvRead(eeprom, myAddrH) = 128 THEN 6999
          ELSE (7000 + last.storedAddress) % Uint16Range
     /\ last.pomAddress = 6999 => ~Programmed
     /\ Programmed => last.pomAddress >= 7000

\* C36: with the accessory role configured storedAddress() returns 65535
\* only if the high address CV is 128 or more; with the high address CV
\* below 128 it returns an address of 0..511 (decoder addressing) or 0..2047
\* (output addressing), after a capture as well.
C36_NoFalseUnassigned ==
  (AddressAsked /\ CvRead(eeprom, Config) >= 128)
  => /\ last.storedAddress = 65535 => ~Programmed
     /\ Programmed
          => last.storedAddress \in
               0 .. (IF (CvRead(eeprom, Config) \div 64) % 2 = 1 THEN 2047
                     ELSE 511)


-----------------------------------------------------------------------------
(* After the cancel of the capture loop                                    *)

\* The capture loop has just been left by a press of the button, and the
\* button is still held after the delay(500) and the read() that end
\* addressProgramming()
CancelHeld == last.kind = "cancel" /\ rawPin /\ isPressed(btn)

\* C39: once the capture loop has been cancelled by a press of the button
\* and while that press is held, the next step leaves the main loop running
\* with the indicator AlwaysOff and dark: no steady-on indicator, no new
\* capture loop, no factory reset, no reboot.
C39_CancelIsFinal ==
  [][CancelHeld
       => /\ pc' = "run"
          /\ led'.mode = alwaysOff
          /\ ~led'.on
          /\ eeprom' = eeprom]_vars


-----------------------------------------------------------------------------
(* The elapsed-time tests when millis() wraps around: a DccTimer, a         *)
(* DccButton and the 20 ms gate of update(), all started at the same clock  *)
(* value, polled as time passes                                             *)

\* Moves in one run
MaxWrapMoves == 7

\* Milliseconds that pass between two moves
WrapGaps == {10, TickPeriod}

\* Arguments of setTime()
WrapDurations == {30, 50}

\* millis() at the start: 1000, 20 ms before the wrap, 1 ms before the wrap
WrapStarts ==
  {U32(1000), <<Uint16Range - 1, Uint16Range - 20>>,
   <<Uint16Range - 1, Uint16Range - 1>>}

\* The milliseconds that have really passed, counted without a clock: since
\* the timer was armed (dur: its duration, armed: set and not yet reported
\* expired), since the last accepted transition of the button, since the
\* last pass of update() that acted
WrapHistory ==
  [dur |-> 0, armed |-> FALSE, sinceArm |-> 0, sinceChange |-> 0,
   sinceTick |-> 0]

wrapIdle ==
  <<pc, eeprom, defaults, LedShouldFlash, pomAddress, myAddress, myMaster,
    cmds>>

\* attach() and init() at the start value of millis()
WrapInit ==
  /\ pc = "clock"
  /\ eeprom = ErasedImage(255)
  /\ defaults = ZeroDefaults
  /\ led = LedZero(FALSE)
  /\ rawPin = FALSE
  /\ now \in WrapStarts
  /\ btn = BtnAttach(rawPin, DefaultDbTime, now)
  /\ LedShouldFlash = FALSE
  /\ pomAddress = 0
  /\ myAddress = 0
  /\ myMaster = 0
  /\ TLast = now
  /\ last = [kind |-> "attach", events |-> <<>>, result |-> FALSE,
             before |-> WrapHistory, differs |-> FALSE, hist |-> WrapHistory]
  /\ cmds = 0
  /\ ticks = 0
  /\ timer = TimerZero

\* One move: its name, the value it returned, whether the input differed
\* from the accepted state of the button, the history afterwards
WrapMove(kind, result, differs, h) ==
  /\ pc = "clock"
  /\ ticks < MaxWrapMoves
  /\ last' = [kind |-> kind, events |-> <<>>, result |-> result,
              before |-> last.hist, differs |-> differs, hist |-> h]
  /\ ticks' = ticks + 1
  /\ UNCHANGED wrapIdle

\* Time passes
WrapElapse(dt) ==
  /\ WrapMove("elapse", FALSE, FALSE,
              [last.hist EXCEPT !.sinceArm = @ + dt, !.sinceChange = @ + dt,
                                !.sinceTick = @ + dt])
  /\ now' = U32Add(now, U32(dt))
  /\ UNCHANGED <<timer, btn, rawPin, led, TLast>>

\* DccTimer::setTime(d) with d > 0
WrapSetTime(d) ==
  /\ WrapMove("setTime", FALSE, FALSE,
              [last.hist EXCEPT !.dur = d, !.armed = TRUE, !.sinceArm = 0])
  /\ timer' = setTime(timer, U32(d), now)
  /\ UNCHANGED <<now, btn, rawPin, led, TLast>>

\* DccTimer::running()
WrapRunning ==
  /\ WrapMove("running", running(timer, now), FALSE, last.hist)
  /\ UNCHANGED <<now, timer, btn, rawPin, led, TLast>>

\* DccTimer::expired()
WrapExpired ==
  LET e == expired(timer, now)
  IN  /\ WrapMove("expired", e.result, FALSE,
                  [last.hist EXCEPT !.armed = @ /\ ~e.result])
      /\ timer' = e.timer
      /\ UNCHANGED <<now, btn, rawPin, led, TLast>>

\* The user presses the button
WrapPress ==
  /\ ~rawPin
  /\ WrapMove("press", FALSE, FALSE, last.hist)
  /\ rawPin' = TRUE
  /\ UNCHANGED <<now, timer, btn, led, TLast>>

\* DccButton::read()
WrapRead ==
  LET b1 == BtnRead(btn, rawPin, now)
  IN  /\ WrapMove("read", b1.m_changed, rawPin # btn.m_state,
                  [last.hist EXCEPT
                     !.sinceChange = IF b1.m_changed THEN 0 ELSE @])
      /\ btn' = b1
      /\ UNCHANGED <<now, timer, rawPin, led, TLast>>

\* CommonDecHwFunctions::update(): with 20 ms or more since TLast it reads
\* the button, turns the indicator on if it is pressed and updates the
\* indicator (the button is not let go and not held for 5000 ms here);
\* otherwise it does nothing. The value recorded is whether it acted.
WrapUpdate ==
  LET b1 == BtnRead(btn, rawPin, now)
      l1 == IF isPressed(b1) THEN LedTurnOn(led) ELSE led
  IN  IF ~U32Less(U32Sub(now, TLast), U32(TickPeriod))
      THEN /\ ~pressedFor(b1, LongHold)
           /\ ~wasReleased(b1)
           /\ WrapMove("update", TRUE, rawPin # btn.m_state,
                       [last.hist EXCEPT
                          !.sinceTick = 0,
                          !.sinceChange = IF b1.m_changed THEN 0 ELSE @])
           /\ TLast' = now
           /\ btn' = b1
           /\ led' = LedUpdate(l1, now)
           /\ UNCHANGED <<now, timer, rawPin>>
      ELSE /\ WrapMove("update", FALSE, FALSE, last.hist)
           /\ UNCHANGED <<now, timer, btn, rawPin, led, TLast>>

NextWrap ==
  \/ \E dt \in WrapGaps : WrapElapse(dt)
  \/ \E d \in WrapDurations : WrapSetTime(d)
  \/ WrapRunning
  \/ WrapExpired
  \/ WrapPress
  \/ WrapRead
  \/ WrapUpdate

SpecWrap == WrapInit /\ [][NextWrap]_vars

\* C40: the elapsed-time tests give the decisions of the milliseconds that
\* have really passed, whether or not millis() wrapped from 2^32 - 1 to 0 in
\* between: running() is true exactly while the armed timer's duration has
\* not passed, expired() is true exactly when the armed timer's duration has
\* passed, read() accepts a changed input exactly when the debounce time
\* has passed since the last accepted transition, and update() acts exactly
\* when 20 ms have passed since it last acted.
C40_ClockWrapAround ==
  /\ last.kind = "running"
       => (last.result
             <=> (last.before.armed
                    /\ last.before.sinceArm < last.before.dur))
  /\ last.kind = "expired"
       => (last.result
             <=> (last.before.armed
                    /\ last.before.sinceArm >= last.before.dur))
  /\ last.kind = "read"
       => (last.result
             <=> (last.differs /\ last.before.sinceChange >= DefaultDbTime))
  /\ last.kind = "update"
       => (last.result <=> last.before.sinceTick >= TickPeriod)

\* The timer was armed before the wrap and reports expired after it; the
\* press was accepted and update() has acted after the wrap as well
C40_Witness ==
  /\ last.kind = "expired"
  /\ last.result
  /\ U32Less(now, timer.startTime)
  /\ isPressed(btn)
  /\ U32Less(btn.m_lastChange, timer.startTime)
  /\ U32Less(TLast, timer.startTime)

=============================================================================
